---- MODULE Spec2Model ----
(***************************************************************************)
(* State-management logic of the todo application: the useTodos hook       *)
(* (hooks/useTodos) and the inline handlers of the Home page component     *)
(* (src/app/page.tsx).  Both hold an ordered list of Todo records          *)
(* {id, text, completed} and expose addTodo, toggleTodo and deleteTodo;    *)
(* the hook also derives stats on every render.                            *)
(*                                                                         *)
(* A text is a sequence of one-character strings.  Date.now() is the       *)
(* variable clock, which the environment advances between calls (or not:   *)
(* two calls may read the same value).                                     *)
(***************************************************************************)
EXTENDS Integers, Sequences, FiniteSets, TLC

\* Bounds of the model.
MaxTodos == 3
MaxClock == 2

\* Characters String.prototype.trim() strips (the ones used by the inputs).
WhiteSpace == {" ", "\t"}

\* Texts handed to addTodo.
TextInputs ==
    { <<>>,
      <<" ">>,
      <<"\t", " ">>,
      <<"a">>,
      <<"b">>,
      <<" ", "a", " ">>,
      <<" ", "a", " ", "b", "\t">> }

\* Ids handed to toggleTodo and deleteTodo; 0 is never the id of a task.
IdInputs == 0..MaxClock

VARIABLES
    todos,      \* useTodos: const [todos, setTodos] = useState<Todo[]>([])
    homeTodos,  \* Home:     const [todos, setTodos] = useState<Todo[]>([])
    stats,      \* useTodos: stats as computed by the latest render
    clock,      \* the value Date.now() returns
    last,       \* the latest call: its name, arguments and the lists before it
    scen        \* progress through add("a"), add("b"), toggle(a), delete(b)

vars == <<todos, homeTodos, stats, clock, last, scen>>

----------------------------------------------------------------------------
\* text.trim()

RECURSIVE trimStart(_)
trimStart(s) ==
    IF s = <<>> THEN <<>>
    ELSE IF Head(s) \in WhiteSpace THEN trimStart(Tail(s))
    ELSE s

RECURSIVE trimEnd(_)
trimEnd(s) ==
    IF s = <<>> THEN <<>>
    ELSE IF s[Len(s)] \in WhiteSpace THEN trimEnd(SubSeq(s, 1, Len(s) - 1))
    ELSE s

trim(s) == trimEnd(trimStart(s))

----------------------------------------------------------------------------
\* useTodos

\* Mutants of addTodo.
addTodo_emptyOnly(prev, text, now) ==
    IF text = <<>> THEN prev
    ELSE Append(prev, [id |-> now, text |-> trim(text), completed |-> FALSE])

addTodo_untrimmed(prev, text, now) ==
    IF trim(text) = <<>> THEN prev
    ELSE Append(prev, [id |-> now, text |-> text, completed |-> FALSE])

addTodo_noGuard(prev, text, now) ==
    Append(prev, [id |-> now, text |-> trim(text), completed |-> FALSE])

addTodo(prev, text, now) ==
    IF trim(text) = <<>> THEN prev
    ELSE Append(prev, [id |-> now, text |-> trim(text), completed |-> FALSE])

\* Mutant of toggleTodo.
toggleTodo_moveToEnd(prev, id) ==
    SelectSeq(prev, LAMBDA todo : todo.id # id) \o
    [i \in 1..Len(SelectSeq(prev, LAMBDA todo : todo.id = id)) |->
        [SelectSeq(prev, LAMBDA todo : todo.id = id)[i]
            EXCEPT !.completed = ~@]]

toggleTodo_setTrue(prev, id) ==
    [i \in 1..Len(prev) |->
        IF prev[i].id = id THEN [prev[i] EXCEPT !.completed = TRUE]
        ELSE prev[i]]

toggleTodo(prev, id) ==
    [i \in 1..Len(prev) |->
        IF prev[i].id = id THEN [prev[i] EXCEPT !.completed = ~prev[i].completed]
        ELSE prev[i]]

\* Mutant of deleteTodo.
deleteTodo_inverted(prev, id) ==
    SelectSeq(prev, LAMBDA todo : todo.id = id)

deleteTodo(prev, id) ==
    SelectSeq(prev, LAMBDA todo : todo.id # id)

\* Mutant of Stats.
Stats_remainingOffByOne(ts) ==
    [total     |-> Len(ts),
     completed |-> Len(SelectSeq(ts, LAMBDA todo : todo.completed)),
     remaining |-> Len(SelectSeq(ts, LAMBDA todo : ~todo.completed)) + 1]

Stats(ts) ==
    [total     |-> Len(ts),
     completed |-> Len(SelectSeq(ts, LAMBDA todo : todo.completed)),
     remaining |-> Len(SelectSeq(ts, LAMBDA todo : ~todo.completed))]

----------------------------------------------------------------------------
\* Home (src/app/page.tsx)

Home_addTodo(prev, text, now) ==
    IF trim(text) = <<>> THEN prev
    ELSE Append(prev, [id |-> now, text |-> trim(text), completed |-> FALSE])

Home_toggleTodo(prev, id) ==
    [i \in 1..Len(prev) |->
        IF prev[i].id = id THEN [prev[i] EXCEPT !.completed = ~prev[i].completed]
        ELSE prev[i]]

\* Mutant of Home_deleteTodo.
Home_deleteTodo_firstOnly(prev, id) ==
    IF \E i \in 1..Len(prev) : prev[i].id = id
    THEN LET k == CHOOSE i \in 1..Len(prev) :
                    /\ prev[i].id = id
                    /\ \A j \in 1..(i - 1) : prev[j].id # id
         IN  SubSeq(prev, 1, k - 1) \o SubSeq(prev, k + 1, Len(prev))
    ELSE prev

Home_deleteTodo(prev, id) ==
    SelectSeq(prev, LAMBDA todo : todo.id # id)

----------------------------------------------------------------------------
\* The state machine

Call(op, text, id) ==
    [op |-> op, text |-> text, id |-> id, now |-> clock,
     before |-> todos, homeBefore |-> homeTodos]

Init ==
    /\ todos = <<>>
    /\ homeTodos = <<>>
    /\ stats = Stats(<<>>)
    /\ clock = 1
    /\ last = [op |-> "none", text |-> <<>>, id |-> 0, now |-> 1,
               before |-> <<>>, homeBefore |-> <<>>]
    /\ scen = 0

\* Date.now() moves on between two calls.
Tick ==
    /\ clock < MaxClock
    /\ clock' = clock + 1
    /\ UNCHANGED <<todos, homeTodos, stats, last, scen>>

Add(text) ==
    /\ Len(todos) < MaxTodos
    /\ todos' = addTodo(todos, text, clock)
    /\ homeTodos' = Home_addTodo(homeTodos, text, clock)
    /\ stats' = Stats(todos')
    /\ last' = Call("add", text, 0)
    /\ scen' = IF scen = 0 /\ text = <<"a">> THEN 1
               ELSE IF scen = 1 /\ text = <<"b">> THEN 2
               ELSE -1
    /\ UNCHANGED clock

Toggle(id) ==
    /\ todos' = toggleTodo(todos, id)
    /\ homeTodos' = Home_toggleTodo(homeTodos, id)
    /\ stats' = Stats(todos')
    /\ last' = Call("toggle", <<>>, id)
    /\ scen' = IF scen = 2 /\ id = todos[1].id THEN 3 ELSE -1
    /\ UNCHANGED clock

Delete(id) ==
    /\ todos' = deleteTodo(todos, id)
    /\ homeTodos' = Home_deleteTodo(homeTodos, id)
    /\ stats' = Stats(todos')
    /\ last' = Call("delete", <<>>, id)
    /\ scen' = IF scen = 3 /\ id = todos[2].id THEN 4 ELSE -1
    /\ UNCHANGED clock

Next ==
    \/ Tick
    \/ \E text \in TextInputs : Add(text)
    \/ \E id \in IdInputs : Toggle(id)
    \/ \E id \in IdInputs : Delete(id)

Spec == Init /\ [][Next]_vars

----------------------------------------------------------------------------
\* Helpers of the properties

Has(ts, id) == \E i \in 1..Len(ts) : ts[i].id = id

Blank(s) == \A i \in 1..Len(s) : s[i] \in WhiteSpace

\* ts without its k-th element
RemoveAt(ts, k) == SubSeq(ts, 1, k - 1) \o SubSeq(ts, k + 1, Len(ts))

\* t is s without leading and trailing white space, stated without trim
IsTrimOf(t, s) ==
    \E i \in 1..(Len(s) + 1) : \E j \in 0..Len(s) :
        /\ t = SubSeq(s, i, j)
        /\ \A k \in 1..(i - 1) : s[k] \in WhiteSpace
        /\ \A k \in (j + 1)..Len(s) : s[k] \in WhiteSpace
        /\ (t # <<>> => t[1] \notin WhiteSpace /\ t[Len(t)] \notin WhiteSpace)

\* the (id, text) pairs of a occur in b in the same order
RECURSIVE Embeds(_, _)
Embeds(a, b) ==
    IF a = <<>> THEN TRUE
    ELSE IF b = <<>> THEN FALSE
    ELSE IF Head(a).id = Head(b).id /\ Head(a).text = Head(b).text
         THEN Embeds(Tail(a), Tail(b))
         ELSE Embeds(a, Tail(b))

\* a call of op kept the id and the text of every task it left in the store
TextAndIdKept(after, before, op) ==
    /\ op \in {"add", "toggle"} =>
          /\ Len(after) >= Len(before)
          /\ \A i \in 1..Len(before) :
                after[i].id = before[i].id /\ after[i].text = before[i].text
    /\ op = "delete" => Embeds(after, before)

\* a is b with some elements left out: the tasks of a are tasks of b, whole
\* records, in the order they have in b
RECURSIVE IsSubsequence(_, _)
IsSubsequence(a, b) ==
    IF a = <<>> THEN TRUE
    ELSE IF b = <<>> THEN FALSE
    ELSE IF Head(a) = Head(b) THEN IsSubsequence(Tail(a), Tail(b))
    ELSE IsSubsequence(a, Tail(b))

\* toggle(id) kept the length and every position, id and text, and changed
\* only completed flags, and those only of tasks with that id
ToggleFrame(after, before, id) ==
    /\ Len(after) = Len(before)
    /\ \A i \in 1..Len(before) :
          /\ after[i].id = before[i].id
          /\ after[i].text = before[i].text
          /\ DOMAIN after[i] = DOMAIN before[i]
          /\ before[i].id # id => after[i] = before[i]

\* the tasks present before and after a call of op are in the same order
OrderKept(after, before, op) ==
    /\ op = "add" =>
          /\ Len(after) >= Len(before)
          /\ SubSeq(after, 1, Len(before)) = before
    /\ op = "delete" => IsSubsequence(after, before)

UniqueIn(ts) ==
    \A i, j \in 1..Len(ts) : i # j => ts[i].id # ts[j].id

Flipped(after, before) ==
    {i \in 1..Len(before) : after[i].completed # before[i].completed}

----------------------------------------------------------------------------
\* C1: in every reachable state all task ids in the store are pairwise
\* distinct, also when two add calls read the same clock value.
C1_UniqueIds ==
    UniqueIn(todos) /\ UniqueIn(homeTodos)

\* C2: toggle(id) changes the completed flag of exactly one task whenever a
\* task with that id is in the store, even when several tasks share the id.
C2_ToggleExactlyOne ==
    (last.op = "toggle" /\ Has(last.before, last.id)) =>
        /\ Len(todos) = Len(last.before)
        /\ Cardinality(Flipped(todos, last.before)) = 1
        /\ Len(homeTodos) = Len(last.homeBefore)
        /\ Cardinality(Flipped(homeTodos, last.homeBefore)) = 1

\* C3: delete(id), when a task with that id is in the store, removes exactly
\* one matching task: the length drops by 1 and the other tasks stay,
\* unchanged and in order.
C3_DeleteExactlyOne ==
    (last.op = "delete" /\ Has(last.before, last.id)) =>
        /\ \E k \in 1..Len(last.before) :
              /\ last.before[k].id = last.id
              /\ todos = RemoveAt(last.before, k)
        /\ \E k \in 1..Len(last.homeBefore) :
              /\ last.homeBefore[k].id = last.id
              /\ homeTodos = RemoveAt(last.homeBefore, k)

\* C4: add(text) with an empty or whitespace-only text leaves the task
\* sequence exactly as it was.
C4_AddBlankNoOp ==
    (last.op = "add" /\ Blank(last.text)) =>
        /\ todos = last.before
        /\ homeTodos = last.homeBefore

C4_Witness ==
    /\ last.op = "add"
    /\ last.text # <<>>
    /\ Blank(last.text)
    /\ Len(last.before) >= 1

\* C5: add(text) with a text that is not blank appends exactly one task, with
\* the trimmed text and completed = FALSE; the tasks already present keep
\* their values and positions.
C5_AddAppends ==
    (last.op = "add" /\ ~Blank(last.text)) =>
        /\ Len(todos) = Len(last.before) + 1
        /\ SubSeq(todos, 1, Len(last.before)) = last.before
        /\ IsTrimOf(todos[Len(todos)].text, last.text)
        /\ todos[Len(todos)].completed = FALSE
        /\ Len(homeTodos) = Len(last.homeBefore) + 1
        /\ SubSeq(homeTodos, 1, Len(last.homeBefore)) = last.homeBefore
        /\ IsTrimOf(homeTodos[Len(homeTodos)].text, last.text)
        /\ homeTodos[Len(homeTodos)].completed = FALSE

C5_Witness ==
    /\ last.op = "add"
    /\ ~Blank(last.text)
    /\ last.text[1] \in WhiteSpace
    /\ Len(last.before) >= 1
    /\ todos[Len(todos)].text # last.text

\* C6: toggle(id) and delete(id) with an id that no task in the store has
\* leave the task sequence exactly as it was, the empty store included.
C6_AbsentIdNoOp ==
    /\ (last.op \in {"toggle", "delete"} /\ ~Has(last.before, last.id)) =>
            todos = last.before
    /\ (last.op \in {"toggle", "delete"} /\ ~Has(last.homeBefore, last.id)) =>
            homeTodos = last.homeBefore

C6_Witness ==
    /\ last.op = "delete"
    /\ ~Has(last.before, last.id)
    /\ Len(last.before) >= 2
    /\ \E i \in 1..Len(last.before) : last.before[i].completed

\* C7: after toggle(id), a second toggle(id) gives back exactly the store of
\* before the first call, for every id.
C7_ToggleTwiceRestores ==
    last.op = "toggle" =>
        /\ toggleTodo(todos, last.id) = last.before
        /\ Home_toggleTodo(homeTodos, last.id) = last.homeBefore

C7_Witness ==
    /\ last.op = "toggle"
    /\ Has(last.before, last.id)
    /\ \E i \in 1..Len(last.before) : last.before[i].id # last.id
    /\ todos # last.before

\* C8: the summary is that of the current sequence: total is its length,
\* completed the number of completed tasks, remaining = total - completed.
C8_StatsConsistent ==
    /\ stats.total = Len(todos)
    /\ stats.completed = Cardinality({i \in 1..Len(todos) : todos[i].completed})
    /\ stats.remaining = stats.total - stats.completed
    /\ stats.total = stats.completed + stats.remaining

C8_Witness ==
    /\ last.op = "delete"
    /\ Len(todos) < Len(last.before)
    /\ stats.completed >= 1
    /\ stats.remaining >= 1

\* C9: no task's text is empty or whitespace-only, and a call changes neither
\* the text nor the id of a task that stays in the store.
C9_TextNeverBlankNorChanged ==
    /\ \A i \in 1..Len(todos) : ~Blank(todos[i].text)
    /\ \A i \in 1..Len(homeTodos) : ~Blank(homeTodos[i].text)
    /\ TextAndIdKept(todos, last.before, last.op)
    /\ TextAndIdKept(homeTodos, last.homeBefore, last.op)

C9_Witness ==
    /\ last.op = "toggle"
    /\ Has(last.before, last.id)
    /\ Len(todos) >= 2
    /\ \E i \in 1..Len(todos) : Len(todos[i].text) >= 3

\* C10: from the empty store, add("a"), add("b"), toggle(id of "a") gives the
\* summary {2, 1, 1}; delete(id of "b") then leaves the one task "a",
\* completed, and the summary {1, 1, 0}.
C10_Scenario ==
    /\ scen = 3 =>
          stats = [total |-> 2, completed |-> 1, remaining |-> 1]
    /\ scen = 4 =>
          /\ Len(todos) = 1
          /\ todos[1].text = <<"a">>
          /\ todos[1].completed
          /\ stats = [total |-> 1, completed |-> 1, remaining |-> 0]

\* C11: no call reorders tasks: toggle keeps the length and every task's
\* position, id and text and changes only the completed flag of tasks with
\* the given id; tasks present before and after an add, toggle or delete call
\* keep their relative order.
C11_NoReorder ==
    /\ last.op = "toggle" =>
          /\ ToggleFrame(todos, last.before, last.id)
          /\ ToggleFrame(homeTodos, last.homeBefore, last.id)
    /\ OrderKept(todos, last.before, last.op)
    /\ OrderKept(homeTodos, last.homeBefore, last.op)

C11_Witness ==
    /\ last.op = "toggle"
    /\ Len(last.before) >= 2
    /\ last.before[1].id = last.id
    /\ last.before[Len(last.before)].id # last.id
    /\ todos[1].completed # last.before[1].completed

\* C12: the hook and the Home page component, driven from the empty list by
\* the same calls with the same clock readings, hold the same task sequence
\* after every call.
C12_HookEqualsHome ==
    /\ todos = homeTodos
    /\ last.before = last.homeBefore

C12_Witness ==
    /\ last.op = "delete"
    /\ Len(last.before) - Len(todos) >= 2
    /\ Len(todos) >= 1
    /\ todos = homeTodos

====
